---- MODULE Spec2Model ----
(***************************************************************************)
(* drgn-tools: the workqueue lockup scanner (drgn_tools/workqueue_lockup)  *)
(* and the in-flight I/O reporter (drgn_tools/inflightio) as state         *)
(* machines over the kernel data they read.                                *)
(*                                                                         *)
(* The kernel snapshot (workers, disks, pending requests, NVMe             *)
(* controllers, symbols and constants of the debugged program) is chosen   *)
(* at Init and never changes; the routines only read it and append to the  *)
(* output stream `out`.                                                    *)
(*                                                                         *)
(* Nanosecond quantities do not fit TLC's 32-bit integers (30 s is         *)
(* 30 * 10^9 ns), so a nanosecond count q is kept as the pair              *)
(* [sec |-> q \div 10^9, ns |-> q % 10^9]; Python's integers are unbounded *)
(* and no overflow exists in the code.                                     *)
(***************************************************************************)
EXTENDS Integers, Sequences, FiniteSets, TLC

VARIABLES
    pc,                 \* position of the running routine
    out,                \* the lines / records printed so far, in order
    \* ---- workqueue_lockup: the debugged program and the locals
    wq_watchdog_thresh, \* value of the kernel symbol, or NONE when absent
    workers,            \* the workers in scan order (cpu, then pool, then list)
    widx,               \* index of the next worker the scan visits
    thresh_seconds,     \* local of scan_workqueue_lockup
    thresh_ns,          \* local of scan_workqueue_lockup
    lockup_count,       \* local of scan_workqueue_lockup
    \* ---- inflightio: the debugged program and the locals
    diskname,           \* argument of dump_inflight_io
    consts,             \* prog.constant: name -> value, absent names missing
    hwq_flags,          \* flags of the hardware queue the mq requests sit on
    disk_mq,            \* per disk: the requests for_each_mq_pending_request yields
    disk_sq,            \* per disk: how many requests for_each_sq_pending_request yields
    nvme,               \* [has_connect_q, has_fabrics_q, ctrls]
    qtype_arg,          \* argument of a direct dump_nvme_mgmt_inflight_io call
    BLK_MQ_F_TAG_SHARED,\* local of dump_inflight_io
    lookups,            \* names handed to prog.constant, in order
    didx,               \* index of the next disk for_each_disk yields
    nvme_calls          \* qtypes dump_nvme_mgmt_inflight_io was invoked with

wqvars == <<wq_watchdog_thresh, workers, widx, thresh_seconds, thresh_ns, lockup_count>>
iovars == <<diskname, consts, hwq_flags, disk_mq, disk_sq, nvme, qtype_arg,
            BLK_MQ_F_TAG_SHARED, lookups, didx, nvme_calls>>
vars == <<pc, out, wqvars, iovars>>

NONE == -1

\* ------------------------------------------------------------------------
\* Formatting helpers: "%x" / f"{v:x}" and str(int)
\* ------------------------------------------------------------------------
HexDigits == <<"0", "1", "2", "3", "4", "5", "6", "7",
               "8", "9", "a", "b", "c", "d", "e", "f">>

RECURSIVE Hex(_)
Hex(n) == IF n < 16 THEN HexDigits[n + 1]
          ELSE Hex(n \div 16) \o HexDigits[(n % 16) + 1]

RECURSIVE Str(_)
Str(n) == IF n < 10 THEN HexDigits[n + 1]
          ELSE Str(n \div 10) \o HexDigits[(n % 10) + 1]

\* ------------------------------------------------------------------------
\* Nanosecond arithmetic on [sec, ns] pairs
\* ------------------------------------------------------------------------
NsPerSec == 1000000000

Ns(s, n) == [sec |-> s, ns |-> n]

\* seconds * 1_000_000_000
SecondsToNs(s) == Ns(s, 0)

\* a < b on nanosecond counts
NsLess(a, b) == a.sec < b.sec \/ (a.sec = b.sec /\ a.ns < b.ns)

\* ========================================================================
\* workqueue_lockup.py
\* ========================================================================
DefaultThresh == 30

MaxWorkers == 2

\* Values the wq_watchdog_thresh symbol takes when the kernel has it.
ThreshSymValues == {1, 60}

\* task_lastrun2now results: around the default threshold, at a symbol's
\* threshold, and far above both.
Runtimes == { Ns(29, 999999999), Ns(30, 0), Ns(30, 1), Ns(60, 0), Ns(3600, 0) }

\* prog.symbol(addr): the symbol table of the debugged program; the function
\* at 0x1000 has a symbol, the one at 0x2000 has none (LookupError)
SymbolTable == (4096 :> "process_one_work_fn")

\* A busy worker: current_work, current_func set; current_pwq may be NULL and
\* the workqueue name behind it may be unreadable.  An idle worker has all
\* three NULL.
BusyWorkers ==
    [ current_work : {20480}, current_func : {4096, 8192},
      current_pwq : {0, 24576}, name_readable : BOOLEAN, runtime : Runtimes ]
IdleWorkers ==
    [ current_work : {0}, current_func : {0}, current_pwq : {0},
      name_readable : {TRUE}, runtime : Runtimes ]
WorkerKinds ==
    {w \in BusyWorkers : w.current_pwq = 0 => w.name_readable} \cup IdleWorkers

WorkerLists == UNION { [1..n -> WorkerKinds] : n \in 0..MaxWorkers }

\* task.pid of the i-th worker in scan order
PidOf(i) == 100 + i

\* the symbol is never consulted
Get_watchdog_thresh_seconds_DefaultOnly(sym) == DefaultThresh

Get_watchdog_thresh_seconds(sym) ==
    IF sym # NONE THEN sym ELSE DefaultThresh

\* the pointer is rendered in decimal, the ":x" lost
Current_work_func_name_Decimal(worker) ==
    IF worker.current_func \in DOMAIN SymbolTable
    THEN SymbolTable[worker.current_func]
    ELSE "UNKNOWN: 0x" \o Str(worker.current_func)

Current_work_func_name(worker) ==
    IF worker.current_func \in DOMAIN SymbolTable
    THEN SymbolTable[worker.current_func]
    ELSE "UNKNOWN: 0x" \o Hex(worker.current_func)

\* lines 79-88: the workqueue name of a stuck worker
WqName(worker) ==
    IF worker.current_pwq # 0
    THEN IF worker.name_readable THEN "events" ELSE "unknown"
    ELSE "unknown"

\* the idle check is lost
WorkerIdle_Never(worker) == FALSE

\* line 72: `if not worker.current_work: continue`
WorkerIdle(worker) == worker.current_work = 0

\* line 76: `if runtime < thresh_ns: continue`
BelowThreshold(runtime, thresh) == NsLess(runtime, thresh)

\* lines 89-110: the diagnostic block of one stuck worker
Block(i, worker) ==
    [ kind |-> "block", pid |-> PidOf(i),
      wq_name |-> WqName(worker), pwq |-> "0x" \o Hex(worker.current_pwq),
      work |-> "0x" \o Hex(worker.current_work),
      func |-> Current_work_func_name(worker),
      runtime |-> worker.runtime ]

IoIdle ==
    /\ diskname = "all"
    /\ consts = << >>
    /\ hwq_flags = 0
    /\ disk_mq = << >>
    /\ disk_sq = << >>
    /\ nvme = [has_connect_q |-> FALSE, has_fabrics_q |-> FALSE, ctrls |-> << >>]
    /\ qtype_arg = "admin"
    /\ BLK_MQ_F_TAG_SHARED = NONE
    /\ lookups = << >>
    /\ didx = 1
    /\ nvme_calls = << >>

WqInit ==
    /\ pc = "wq_start"
    /\ out = << >>
    /\ wq_watchdog_thresh \in ThreshSymValues \cup {NONE}
    /\ workers \in WorkerLists
    /\ widx = 1
    /\ thresh_seconds = 0
    /\ thresh_ns = Ns(0, 0)
    /\ lockup_count = 0
    /\ IoIdle

\* lines 63-68
WqStart ==
    /\ pc = "wq_start"
    /\ thresh_seconds' = Get_watchdog_thresh_seconds(wq_watchdog_thresh)
    /\ thresh_ns' = SecondsToNs(thresh_seconds')
    /\ out' = Append(out, [kind |-> "thresh", seconds |-> thresh_seconds'])
    /\ lockup_count' = 0
    /\ pc' = "wq_scan"
    /\ UNCHANGED <<wq_watchdog_thresh, workers, widx, iovars>>

\* lines 69-110: one iteration of the innermost loop
WqWorker ==
    /\ pc = "wq_scan"
    /\ widx <= Len(workers)
    /\ LET worker == workers[widx] IN
       IF WorkerIdle(worker) \/ BelowThreshold(worker.runtime, thresh_ns)
       THEN UNCHANGED <<lockup_count, out>>
       ELSE /\ lockup_count' = lockup_count + 1
            /\ out' = Append(out, Block(widx, worker))
    /\ widx' = widx + 1
    /\ UNCHANGED <<pc, wq_watchdog_thresh, workers, thresh_seconds, thresh_ns, iovars>>

\* lines 112-119
WqSummary ==
    /\ pc = "wq_scan"
    /\ widx > Len(workers)
    /\ out' = Append(out, IF lockup_count = 0
                          THEN [kind |-> "not_detected"]
                          ELSE [kind |-> "detected", count |-> lockup_count])
    /\ pc' = "done"
    /\ UNCHANGED <<wqvars, iovars>>

WqNext == WqStart \/ WqWorker \/ WqSummary

SpecWQ == WqInit /\ [][WqNext]_vars

\* ------------------------------------------------------------------------
\* Properties of scan_workqueue_lockup
\* ------------------------------------------------------------------------
\* the workers the scan has been through
Visited == IF pc = "wq_start" THEN {} ELSE 1 .. (widx - 1)

Blocks == {k \in DOMAIN out : out[k].kind = "block"}

BlocksOf(i) == {k \in Blocks : out[k].pid = PidOf(i)}

Reported(i) == BlocksOf(i) # {}

Busy(i) == workers[i].current_work # 0

\* runtime of worker i is strictly above s seconds
Above(i, s) ==
    workers[i].runtime.sec > s \/ (workers[i].runtime.sec = s /\ workers[i].runtime.ns > 0)

\* runtime of worker i is exactly s seconds
Exactly(i, s) == workers[i].runtime = [sec |-> s, ns |-> 0]

SummaryLines == {k \in DOMAIN out : out[k].kind \in {"not_detected", "detected"}}

\* C1: a worker with a current work item whose runtime exactly equals the
\* threshold is neither reported nor counted; one nanosecond above the
\* threshold it is reported and counted (strictly-greater comparison).
C1_StrictlyGreater ==
    /\ \A i \in Visited :
          /\ (Busy(i) /\ Exactly(i, thresh_seconds)) => ~Reported(i)
          /\ (Busy(i) /\ workers[i].runtime = [sec |-> thresh_seconds, ns |-> 1])
                => Reported(i)
    /\ lockup_count = Cardinality({i \in Visited : Busy(i) /\ Above(i, thresh_seconds)})

\* C4: exactly one summary line, printed last; with zero workers above the
\* threshold it is the "not detected" line and there is no block; with N > 0
\* workers above it there are N blocks and the summary states N.
C4_SummaryMatchesExceeding ==
    pc = "done" =>
        LET N == Cardinality({i \in 1..Len(workers) :
                                 Busy(i) /\ Above(i, thresh_seconds)})
        IN  /\ SummaryLines = {Len(out)}
            /\ Cardinality(Blocks) = N
            /\ (N = 0 => out[Len(out)] = [kind |-> "not_detected"])
            /\ (N > 0 => out[Len(out)] = [kind |-> "detected", count |-> N])

\* C6: a worker whose current_work is NULL is never reported and never
\* counted, whatever its task's runtime.
C6_IdleNeverReported ==
    /\ \A i \in Visited : ~Busy(i) => ~Reported(i)
    /\ \A k \in Blocks : \E i \in Visited : Busy(i) /\ out[k].pid = PidOf(i)
    /\ lockup_count = Cardinality(Blocks)
    /\ \A k \in SummaryLines :
          out[k].kind = "detected" => out[k].count = Cardinality(Blocks)

C6_Witness ==
    /\ pc = "done"
    /\ \E i \in 1..Len(workers) :
          ~Busy(i) /\ workers[i].runtime = [sec |-> 3600, ns |-> 0]
    /\ \E j \in 1..Len(workers) : Reported(j)

\* C7: with the symbol absent the printed threshold is 30 seconds and workers
\* are compared against 30 * 10^9 ns; with the symbol present both use the
\* symbol's value.
C7_ThresholdUsed ==
    pc # "wq_start" =>
        LET E == IF wq_watchdog_thresh = NONE THEN 30 ELSE wq_watchdog_thresh
        IN  /\ out[1] = [kind |-> "thresh", seconds |-> E]
            /\ \A i \in Visited :
                  /\ Reported(i) => workers[i].runtime.sec >= E
                  /\ (Busy(i) /\ Above(i, E)) => Reported(i)

C7_Witness ==
    /\ pc = "done"
    /\ wq_watchdog_thresh = NONE
    /\ \E i, j \in 1..Len(workers) :
          /\ Busy(i) /\ workers[i].runtime = [sec |-> 30, ns |-> 1] /\ Reported(i)
          /\ Busy(j) /\ workers[j].runtime = [sec |-> 29, ns |-> 999999999]
          /\ ~Reported(j)

\* C10: a stuck worker whose function symbol cannot be resolved, whose
\* pool-workqueue association is NULL or whose workqueue name cannot be read
\* still gets its block (with the placeholders "UNKNOWN: 0x<pointer>" and
\* "unknown"), is still counted, and the scan goes on through every later
\* worker.
C10_NamingFailuresAreLocal ==
    /\ \A i \in Visited :
          (Busy(i) /\ Above(i, thresh_seconds)) =>
              /\ Cardinality(BlocksOf(i)) = 1
              /\ \A k \in BlocksOf(i) :
                    /\ out[k].func =
                          IF workers[i].current_func = 4096
                          THEN "process_one_work_fn" ELSE "UNKNOWN: 0x2000"
                    /\ out[k].wq_name =
                          IF workers[i].current_pwq = 0 \/ ~workers[i].name_readable
                          THEN "unknown" ELSE "events"
    /\ lockup_count >= Cardinality({i \in Visited : Busy(i) /\ Above(i, thresh_seconds)})
    /\ pc = "done" =>
          /\ widx = Len(workers) + 1
          /\ out[Len(out)].kind = "detected" => out[Len(out)].count = lockup_count

C10_Witness ==
    /\ pc = "done"
    /\ Len(workers) = 2
    /\ workers[1].current_func = 8192 /\ workers[1].current_pwq = 0
    /\ workers[2].current_pwq # 0 /\ ~workers[2].name_readable
    /\ Reported(1) /\ Reported(2)
    /\ out[Len(out)] = [kind |-> "detected", count |-> 2]

\* ========================================================================
\* inflightio.py
\* ========================================================================
NumDisks == 2

NumCtrls == 2

Disks == 1 .. NumDisks

\* disk.disk_name.string_().decode() and disk.value_() of the d-th disk
\* for_each_disk yields
DiskNameOf(d) == "sd" \o Str(d)
DiskPtr(d) == 256 * d

\* The multi-queue requests in flight and the hardware queue they sit on.
\* Request r was issued to disk RqTarget(r); a disk's request queue may yield
\* requests of a sibling disk when the hardware queue's tags are shared.
RqIds == {1, 2}
RqPtr(r) == 4096 * r
RqTarget(r) == ((r - 1) % NumDisks) + 1
HwqPtr == 2048
MqLists == {<< >>, <<1>>, <<2>>, <<1, 2>>}
FlagValues == {0, 2, 5}

\* address of the j-th single-queue request of disk d
SqPtr(d, j) == 65536 * d + 16 * j
SqCounts == {0, 2}

\* prog.constant(name): a name outside the domain raises LookupError
ConstEnvs ==
    { << >>,
      ("BLK_MQ_F_TAG_SHARED" :> 2),
      ("BLK_MQ_F_TAG_QUEUE_SHARED" :> 4),
      ("BLK_MQ_F_TAG_SHARED" :> 2) @@ ("BLK_MQ_F_TAG_QUEUE_SHARED" :> 4) }

\* NVMe controllers.  A queue field the kernel's struct nvme_ctrl lacks holds
\* NONE; a present field is NULL (0) or the queue's address.  `pending` is
\* the number of requests in flight on each non-NULL queue of the controller.
AdminQ(i) == 28672 + 16 * i + 1
ConnectQ(i) == 28672 + 16 * i + 2
FabricsQ(i) == 28672 + 16 * i + 3

Ctrl(i, has_c, has_f) ==
    [ instance : {i},
      admin_q : {0, AdminQ(i)},
      connect_q : IF has_c THEN {0, ConnectQ(i)} ELSE {NONE},
      fabrics_q : IF has_f THEN {0, FabricsQ(i)} ELSE {NONE},
      pending : {0, 2} ]

CtrlLists(has_c, has_f) ==
    UNION { {cs \in [1..n -> UNION {Ctrl(i, has_c, has_f) : i \in 0..(n - 1)}] :
                \A k \in 1..n : cs[k].instance = k - 1} : n \in 0..NumCtrls }

NvmeEnvs ==
    UNION { [has_connect_q : {c}, has_fabrics_q : {f}, ctrls : CtrlLists(c, f)] :
                c \in BOOLEAN, f \in BOOLEAN }

\* The controller sets the whole report is run against: none; a PCIe
\* controller (admin queue only) ahead of a fabrics controller; an old kernel
\* without connect_q / fabrics_q; and controllers with nothing in flight.
NvmeProfiles ==
    { [has_connect_q |-> TRUE, has_fabrics_q |-> TRUE, ctrls |-> << >>],
      [has_connect_q |-> TRUE, has_fabrics_q |-> TRUE, ctrls |->
          << [instance |-> 0, admin_q |-> AdminQ(0), connect_q |-> 0,
              fabrics_q |-> 0, pending |-> 2],
             [instance |-> 1, admin_q |-> AdminQ(1), connect_q |-> ConnectQ(1),
              fabrics_q |-> FabricsQ(1), pending |-> 2] >>],
      [has_connect_q |-> FALSE, has_fabrics_q |-> FALSE, ctrls |->
          << [instance |-> 0, admin_q |-> AdminQ(0), connect_q |-> NONE,
              fabrics_q |-> NONE, pending |-> 2] >>],
      [has_connect_q |-> TRUE, has_fabrics_q |-> TRUE, ctrls |->
          << [instance |-> 0, admin_q |-> AdminQ(0), connect_q |-> ConnectQ(0),
              fabrics_q |-> FabricsQ(0), pending |-> 0] >>] }

QTypes == <<"admin", "connect", "fabrics">>

RECURSIVE BitAnd(_, _)
BitAnd(a, b) ==
    IF a = 0 \/ b = 0 THEN 0
    ELSE (a % 2) * (b % 2) + 2 * BitAnd(a \div 2, b \div 2)

Header == [kind |-> "header"]

\* one printed record; hwq and cpu are "-" for a single-queue request
Row(name, hwq, rq, cpu) ==
    [kind |-> "row", name |-> name, hwq |-> hwq, rq |-> rq, cpu |-> cpu]

\* ---- dump_nvme_mgmt_inflight_io -----------------------------------------
\* the if / elif chain: the selected queue, or 0 when the else branch is taken
NvmeQueue(ctrl, qtype) ==
    IF qtype = "admin" /\ ctrl.admin_q # 0 THEN ctrl.admin_q
    ELSE IF qtype = "connect" /\ nvme.has_connect_q /\ ctrl.connect_q # 0
         THEN ctrl.connect_q
    ELSE IF qtype = "fabrics" /\ nvme.has_fabrics_q /\ ctrl.fabrics_q # 0
         THEN ctrl.fabrics_q
    ELSE 0

NvmeName(ctrl, qtype) == "nvme" \o Str(ctrl.instance) \o "-" \o qtype

\* address of the j-th request pending on queue q
NvmeRqPtr(q, j) == 1024 * q + j

\* lines 56-74: the rows of one controller's selected queue
NvmeCtrlRows(ctrl, qtype) ==
    LET q == NvmeQueue(ctrl, qtype) IN
    [j \in 1..ctrl.pending |->
        Row(NvmeName(ctrl, qtype), Hex(q), Hex(NvmeRqPtr(q, j)), "cpu")]

\* the for loop: the else branch returns from the function
RECURSIVE Dump_nvme_mgmt_inflight_io(_, _)
Dump_nvme_mgmt_inflight_io(ctrls, qtype) ==
    IF ctrls = << >> THEN << >>
    ELSE IF NvmeQueue(Head(ctrls), qtype) = 0 THEN << >>
    ELSE NvmeCtrlRows(Head(ctrls), qtype)
            \o Dump_nvme_mgmt_inflight_io(Tail(ctrls), qtype)

\* ---- dump_inflight_io ---------------------------------------------------
\* the newer name is tried first
ResolveTagShared_NewFirst(c) ==
    IF "BLK_MQ_F_TAG_QUEUE_SHARED" \in DOMAIN c
    THEN [tried |-> <<"BLK_MQ_F_TAG_QUEUE_SHARED">>, raised |-> FALSE,
          value |-> c["BLK_MQ_F_TAG_QUEUE_SHARED"]]
    ELSE IF "BLK_MQ_F_TAG_SHARED" \in DOMAIN c
    THEN [tried |-> <<"BLK_MQ_F_TAG_QUEUE_SHARED", "BLK_MQ_F_TAG_SHARED">>,
          raised |-> FALSE, value |-> c["BLK_MQ_F_TAG_SHARED"]]
    ELSE [tried |-> <<"BLK_MQ_F_TAG_QUEUE_SHARED", "BLK_MQ_F_TAG_SHARED">>,
          raised |-> TRUE, value |-> NONE]

\* lines 99-102: the names tried, the value found, or the LookupError
ResolveTagShared(c) ==
    IF "BLK_MQ_F_TAG_SHARED" \in DOMAIN c
    THEN [tried |-> <<"BLK_MQ_F_TAG_SHARED">>, raised |-> FALSE,
          value |-> c["BLK_MQ_F_TAG_SHARED"]]
    ELSE IF "BLK_MQ_F_TAG_QUEUE_SHARED" \in DOMAIN c
    THEN [tried |-> <<"BLK_MQ_F_TAG_SHARED", "BLK_MQ_F_TAG_QUEUE_SHARED">>,
          raised |-> FALSE, value |-> c["BLK_MQ_F_TAG_QUEUE_SHARED"]]
    ELSE [tried |-> <<"BLK_MQ_F_TAG_SHARED", "BLK_MQ_F_TAG_QUEUE_SHARED">>,
          raised |-> TRUE, value |-> NONE]

\* the name filter is lost
DiskSelected_Every(dn, name) == TRUE

\* line 105, negated: the disk is not skipped
DiskSelected(dn, name) == ~(dn # "all" /\ dn # name)

\* the flags are compared with the constant instead of masked by it
MqFiltered_FlagsEqual(flags, shared, target, disk) ==
    flags = shared /\ target # disk

\* the tag-shared test is lost: foreign requests are dropped on any queue
MqFiltered_AnyQueue(flags, shared, target, disk) == target # disk

\* lines 118-121: the request is left out of this disk's rows
MqFiltered(flags, shared, target, disk) ==
    BitAnd(flags, shared) # 0 /\ target # disk

MqKept(d, r) == ~MqFiltered(hwq_flags, BLK_MQ_F_TAG_SHARED, DiskPtr(RqTarget(r)), DiskPtr(d))

\* lines 111-135
MqRows(d) ==
    LET kept == SelectSeq(disk_mq[d], LAMBDA r : MqKept(d, r)) IN
    [k \in 1..Len(kept) |->
        Row(DiskNameOf(d), Hex(HwqPtr), Hex(RqPtr(kept[k])), "cpu")]

\* lines 136-154
SqRows(d) ==
    [j \in 1..disk_sq[d] |-> Row(DiskNameOf(d), "-", Hex(SqPtr(d, j)), "-")]

\* lines 104-154: the body of the for_each_disk loop
DiskRows(d) ==
    IF DiskSelected(diskname, DiskNameOf(d)) THEN MqRows(d) \o SqRows(d) ELSE << >>

WqIdle ==
    /\ wq_watchdog_thresh = NONE
    /\ workers = << >>
    /\ widx = 1
    /\ thresh_seconds = 0
    /\ thresh_ns = Ns(0, 0)
    /\ lockup_count = 0

IoInit ==
    /\ pc = "io_start"
    /\ out = << >>
    /\ diskname \in {"all"} \cup {DiskNameOf(d) : d \in Disks}
    /\ consts \in ConstEnvs
    /\ hwq_flags \in FlagValues
    /\ disk_mq \in [Disks -> MqLists]
    /\ disk_sq \in [Disks -> SqCounts]
    /\ nvme \in NvmeProfiles
    /\ qtype_arg = "admin"
    /\ BLK_MQ_F_TAG_SHARED = NONE
    /\ lookups = << >>
    /\ didx = 1
    /\ nvme_calls = << >>
    /\ WqIdle

\* lines 84-102
IoStart ==
    /\ pc = "io_start"
    /\ out' = Append(out, Header)
    /\ LET res == ResolveTagShared(consts) IN
          /\ lookups' = res.tried
          /\ BLK_MQ_F_TAG_SHARED' = res.value
          /\ pc' = IF res.raised THEN "raised" ELSE "io_disks"
    /\ UNCHANGED <<wqvars, diskname, consts, hwq_flags, disk_mq, disk_sq, nvme,
                   qtype_arg, didx, nvme_calls>>

\* lines 103-154: one iteration of the for_each_disk loop
IoDisk ==
    /\ pc = "io_disks"
    /\ didx <= NumDisks
    /\ out' = out \o DiskRows(didx)
    /\ didx' = didx + 1
    /\ UNCHANGED <<pc, wqvars, diskname, consts, hwq_flags, disk_mq, disk_sq, nvme,
                   qtype_arg, BLK_MQ_F_TAG_SHARED, lookups, nvme_calls>>

\* lines 157-160, diskname == "all": the next of the three calls
IoNvmeCall ==
    /\ pc = "io_disks"
    /\ didx > NumDisks
    /\ diskname = "all"
    /\ LET qtype == QTypes[Len(nvme_calls) + 1] IN
          /\ out' = out \o Dump_nvme_mgmt_inflight_io(nvme.ctrls, qtype)
          /\ nvme_calls' = Append(nvme_calls, qtype)
    /\ pc' = IF Len(nvme_calls') = Len(QTypes) THEN "done" ELSE pc
    /\ UNCHANGED <<wqvars, diskname, consts, hwq_flags, disk_mq, disk_sq, nvme,
                   qtype_arg, BLK_MQ_F_TAG_SHARED, lookups, didx>>

\* line 157, diskname != "all": the function returns
IoReturn ==
    /\ pc = "io_disks"
    /\ didx > NumDisks
    /\ diskname # "all"
    /\ pc' = "done"
    /\ UNCHANGED <<out, wqvars, iovars>>

IoNext == IoStart \/ IoDisk \/ IoNvmeCall \/ IoReturn

SpecIO == IoInit /\ [][IoNext]_vars

\* ---- dump_nvme_mgmt_inflight_io called on its own -------------------------
NvmeInit ==
    /\ pc = "nvme_start"
    /\ out = << >>
    /\ diskname = "all"
    /\ consts = << >>
    /\ hwq_flags = 0
    /\ disk_mq = [d \in Disks |-> << >>]
    /\ disk_sq = [d \in Disks |-> 0]
    /\ nvme \in NvmeEnvs
    /\ qtype_arg \in {QTypes[k] : k \in DOMAIN QTypes}
    /\ BLK_MQ_F_TAG_SHARED = NONE
    /\ lookups = << >>
    /\ didx = 1
    /\ nvme_calls = << >>
    /\ WqIdle

\* lines 31-74
NvmeCall ==
    /\ pc = "nvme_start"
    /\ out' = out \o Dump_nvme_mgmt_inflight_io(nvme.ctrls, qtype_arg)
    /\ nvme_calls' = Append(nvme_calls, qtype_arg)
    /\ pc' = "done"
    /\ UNCHANGED <<wqvars, diskname, consts, hwq_flags, disk_mq, disk_sq, nvme,
                   qtype_arg, BLK_MQ_F_TAG_SHARED, lookups, didx>>

NvmeNext == NvmeCall

SpecNvme == NvmeInit /\ [][NvmeNext]_vars

\* ------------------------------------------------------------------------
\* Properties of dump_inflight_io and dump_nvme_mgmt_inflight_io
\* ------------------------------------------------------------------------
RowIdx == {k \in DOMAIN out : out[k].kind = "row"}

\* the rows printed under disk d's name
DevRows(d) == {k \in RowIdx : out[k].name = DiskNameOf(d)}

\* the rows of disk d for multi-queue request r / for its j-th single-queue request
MqRowsFor(d, r) ==
    {k \in DevRows(d) : out[k].hwq # "-" /\ out[k].rq = Hex(RqPtr(r))}
SqRowsFor(d, j) ==
    {k \in DevRows(d) : out[k].hwq = "-" /\ out[k].cpu = "-"
                        /\ out[k].rq = Hex(SqPtr(d, j))}

Yields(d, r) == \E k \in DOMAIN disk_mq[d] : disk_mq[d][k] = r

\* the constant the kernel offers: the older name first, then the newer
KernelTagShared ==
    IF "BLK_MQ_F_TAG_SHARED" \in DOMAIN consts THEN consts["BLK_MQ_F_TAG_SHARED"]
    ELSE IF "BLK_MQ_F_TAG_QUEUE_SHARED" \in DOMAIN consts
         THEN consts["BLK_MQ_F_TAG_QUEUE_SHARED"]
    ELSE NONE

\* the hardware queue's flags have the tag-shared bit (a power of two) set
TagShared ==
    KernelTagShared # NONE /\ (hwq_flags \div KernelTagShared) % 2 = 1

Wanted(d) == diskname = "all" \/ diskname = DiskNameOf(d)

\* C3: on a tag-shared hardware queue a request whose target is not the
\* iterated device has no row under that device, so it has a row under at
\* most one device.
C3_NoForeignRowOnSharedHwq ==
    TagShared =>
        /\ \A d \in Disks : \A r \in RqIds :
              RqTarget(r) # d => MqRowsFor(d, r) = {}
        /\ \A r \in RqIds :
              Cardinality({k \in RowIdx : out[k].rq = Hex(RqPtr(r))}) <= 1

C3_Witness ==
    /\ pc = "done"
    /\ TagShared
    /\ diskname = "all"
    /\ disk_mq[1] = <<1, 2>> /\ disk_mq[2] = <<1, 2>>
    /\ MqRowsFor(1, 1) # {} /\ MqRowsFor(2, 2) # {}
    /\ MqRowsFor(1, 2) = {} /\ MqRowsFor(2, 1) = {}

\* C5: with a diskname other than "all" every row carries that name and
\* dump_nvme_mgmt_inflight_io is never invoked; with "all" no device is
\* skipped and the NVMe section runs.
C5_FilterByName ==
    /\ diskname # "all" =>
          /\ \A k \in RowIdx : out[k].name = diskname
          /\ nvme_calls = << >>
    /\ (pc = "done" /\ diskname = "all") =>
          /\ nvme_calls = <<"admin", "connect", "fabrics">>
          /\ \A d \in Disks :
                /\ \A j \in 1..disk_sq[d] : SqRowsFor(d, j) # {}
                /\ \A r \in RqIds :
                      (Yields(d, r) /\ RqTarget(r) = d) => MqRowsFor(d, r) # {}

C5_Witness ==
    /\ pc = "done"
    /\ diskname = DiskNameOf(1)
    /\ disk_sq[2] = 2 /\ disk_mq[2] = <<1, 2>> /\ hwq_flags = 0
    /\ DevRows(1) # {}
    /\ \E k \in DOMAIN nvme.ctrls :
          nvme.ctrls[k].admin_q # 0 /\ nvme.ctrls[k].pending > 0

\* C8: BLK_MQ_F_TAG_SHARED is looked up first and BLK_MQ_F_TAG_QUEUE_SHARED
\* only after it failed; the first value found is the one the filter uses;
\* when both fail the error propagates with nothing but the header printed.
C8_ConstantFallback ==
    pc # "io_start" =>
        /\ "BLK_MQ_F_TAG_SHARED" \in DOMAIN consts =>
              /\ lookups = <<"BLK_MQ_F_TAG_SHARED">>
              /\ BLK_MQ_F_TAG_SHARED = consts["BLK_MQ_F_TAG_SHARED"]
        /\ "BLK_MQ_F_TAG_SHARED" \notin DOMAIN consts =>
              lookups = <<"BLK_MQ_F_TAG_SHARED", "BLK_MQ_F_TAG_QUEUE_SHARED">>
        /\ ("BLK_MQ_F_TAG_SHARED" \notin DOMAIN consts
              /\ "BLK_MQ_F_TAG_QUEUE_SHARED" \in DOMAIN consts) =>
              BLK_MQ_F_TAG_SHARED = consts["BLK_MQ_F_TAG_QUEUE_SHARED"]
        /\ (pc = "raised") <=> (DOMAIN consts = {})
        /\ pc = "raised" => (out = <<[kind |-> "header"]>> /\ nvme_calls = << >>)
        /\ pc # "raised" =>
              \A d \in 1..(didx - 1) : \A r \in RqIds :
                  (Wanted(d) /\ Yields(d, r) /\ RqTarget(r) # d) =>
                      ((MqRowsFor(d, r) = {}) <=> TagShared)

C8_Witness ==
    /\ pc = "done"
    /\ DOMAIN consts = {"BLK_MQ_F_TAG_QUEUE_SHARED"}
    /\ hwq_flags = 5
    /\ diskname = "all"
    /\ disk_mq[1] = <<1, 2>>
    /\ MqRowsFor(1, 1) # {} /\ MqRowsFor(1, 2) = {}

C8_WitnessRaised ==
    pc = "raised" /\ disk_mq[1] = <<1, 2>> /\ disk_sq[1] = 2 /\ diskname = "all"

\* C9: one header, first; then exactly one record per pending request of each
\* matching device: one per multi-queue pair the tag-shared filter leaves
\* (every pair of a non-shared hardware queue) and one per single-queue
\* request, with "-" for hardware queue and cpu; nothing pending anywhere
\* gives the header only.
C9_HeaderThenOneRowPerRequest ==
    /\ pc # "io_start" =>
          /\ out[1] = [kind |-> "header"]
          /\ \A k \in DOMAIN out : k > 1 => out[k].kind = "row"
    /\ pc = "done" =>
          /\ \A d \in Disks :
                IF Wanted(d)
                THEN /\ \A r \in RqIds :
                           Cardinality(MqRowsFor(d, r)) =
                               IF Yields(d, r) /\ ~(TagShared /\ RqTarget(r) # d)
                               THEN 1 ELSE 0
                     /\ \A j \in 1..2 :
                           Cardinality(SqRowsFor(d, j)) =
                               IF j <= disk_sq[d] THEN 1 ELSE 0
                     /\ \A k \in DevRows(d) :
                           \/ \E r \in RqIds : k \in MqRowsFor(d, r)
                           \/ \E j \in 1..disk_sq[d] : k \in SqRowsFor(d, j)
                ELSE DevRows(d) = {}
          /\ ( /\ \A d \in Disks : disk_mq[d] = << >> /\ disk_sq[d] = 0
               /\ \A k \in DOMAIN nvme.ctrls : nvme.ctrls[k].pending = 0 )
             => out = <<[kind |-> "header"]>>

C9_Witness ==
    /\ pc = "done"
    /\ diskname = "all"
    /\ hwq_flags = 0
    /\ disk_mq[1] = <<1, 2>> /\ disk_sq[1] = 2
    /\ disk_mq[2] = << >> /\ disk_sq[2] = 0
    /\ Cardinality(DevRows(1)) = 4 /\ DevRows(2) = {}

\* C2: every controller is handled on its own: one whose queue for qtype
\* exists and is non-NULL has each of its pending requests printed as
\* nvme<instance>-<qtype>; one without it contributes no row, and the
\* controllers after it are still processed.
C2_EachControllerOnItsOwn ==
    pc = "done" =>
        \A i \in DOMAIN nvme.ctrls :
            LET c == nvme.ctrls[i]
                q == IF qtype_arg = "admin" THEN c.admin_q
                     ELSE IF qtype_arg = "connect" THEN c.connect_q
                     ELSE c.fabrics_q
                name == "nvme" \o Str(c.instance) \o "-" \o qtype_arg
            IN  Cardinality({k \in RowIdx : out[k].name = name}) =
                    IF q # NONE /\ q # 0 THEN c.pending ELSE 0

====
